---- MODULE Spec2Model ----
(***************************************************************************)
(* Overlay placement of PDF-Easy-Edits: one run of applyEdits, from the    *)
(* loaded document to the serialized result, for the three applyEdits      *)
(* implementations of the repository:                                      *)
(*   "editor"  src/src/components/PDFEditor.tsx:197 (part_001:888 is a     *)
(*             textual copy of the same function)                          *)
(*   "counter" src/unnamed/part_001:176                                    *)
(*   "shared"  src/unnamed/part_002:111                                    *)
(* Lengths are fixed-point integers, Scale units to the point, so that     *)
(* (width - textWidth) / 2, fontSize * 1.5 and cm * 28.35 are exact.       *)
(* Characters are Unicode code points.                                     *)
(*                                                                         *)
(* Several specifications share the module:                                *)
(*   Spec        one run of applyEdits                                     *)
(*   SpecFont    one call of loadCustomFont                                *)
(*   SpecUI      one mounted editor component: form, passes of applyEdits, *)
(*               preview object URLs, change of pdfBytes, unmount          *)
(*   SpecUILive  SpecUI with passes of applyEdits that settle              *)
(*   SpecUpload  one file picker, from the picked file to pdfBytes         *)
(*   SpecForm    the page fields: startPage, numPages, pageNumber          *)
(*   SpecWizard  the wizard page of part_004 with its uploads              *)
(* Each one holds the variables of the others at their idle values.        *)
(***************************************************************************)
EXTENDS Integers, Sequences, FiniteSets, TLC

\* one run of applyEdits
VARIABLES variant, pages, data, pc, calls, result

\* one call of loadCustomFont
VARIABLES fontImpl, fontName, bold, fontPc, fontPath, fetched, embedded, probed, returned

\* one mounted editor component: its React state, the passes of applyEdits
\* and the PDF loads it has started, its debounce timer, the object URLs it
\* has created and what it has handed to onEditComplete
VARIABLES ui, mounted, pdfBytes, watchedValues, hasChanges, isLoading, error,
          alerted, modifiedPdfBytes, previewUrl, urls, passes, loads,
          debounceTimer, delivered

\* one file picker: the path the file takes and the file last picked
VARIABLES uploadPath, picked

\* the page fields of one mounted component: the page count it has been
\* told, the page of the paged preview, the startPage field of the form
VARIABLES numPages, pageNumber, startPage

\* the wizard page: its React state and the uploads still on their way
VARIABLES currentStep, editedPdfBytes, editorSettings, uploads

applyVars == <<variant, pages, data, pc, calls, result>>

fontVars == <<fontImpl, fontName, bold, fontPc, fontPath, fetched, embedded, probed, returned>>

uiVars ==
    <<ui, mounted, pdfBytes, watchedValues, hasChanges, isLoading, error,
      alerted, modifiedPdfBytes, previewUrl, urls, passes, loads,
      debounceTimer, delivered>>

uploadVars == <<uploadPath, picked>>

formVars == <<numPages, pageNumber, startPage>>

wizardVars == <<currentStep, editedPdfBytes, editorSettings, uploads>>

\* what a run of applyEdits leaves alone
outsideApplyEdits == <<fontVars, uiVars, uploadVars, formVars, wizardVars>>

\* what a call of loadCustomFont leaves alone
outsideLoadCustomFont == <<applyVars, uiVars, uploadVars, formVars, wizardVars>>

vars == <<applyVars, fontVars, uiVars, uploadVars, formVars, wizardVars>>

\* ---------------------------------------------------------------- bounds
MaxPages == 3

\* ------------------------------------------------------- units and constants
Scale == 40

NumberMargin30 == 30

NumberMargin50 == 50

HebrewFirst == 1424

HebrewLast == 1535

Variants == {"editor", "counter", "shared"}

Min(a, b) == IF a < b THEN a ELSE b

Max(a, b) == IF a > b THEN a ELSE b

Pt(v) == v * Scale

\* cm * 28.35, for a length given in half centimetres
CmToPt(halfCm) == (halfCm * 2835 * Scale) \div 200

\* fontSize * 1.5
LineAdvance(fontSize) == (fontSize * 15 * Scale) \div 10

\* ------------------------------------------------------------------ text
\* '\n'
NL == 10

\* the first letter of the canary string of loadCustomFont, U+05E9
Shin == 1513

IsWhiteSpace(c) == c \in {9, 10, 11, 12, 13, 32, 160}

RECURSIVE TrimStart(_)
TrimStart(s) ==
    IF s = <<>> THEN <<>>
    ELSE IF IsWhiteSpace(Head(s)) THEN TrimStart(Tail(s)) ELSE s

RECURSIVE TrimEnd(_)
TrimEnd(s) ==
    IF s = <<>> THEN <<>>
    ELSE IF IsWhiteSpace(s[Len(s)]) THEN TrimEnd(SubSeq(s, 1, Len(s) - 1)) ELSE s

\* String.prototype.trim
Trim(s) == TrimEnd(TrimStart(s))

\* String.prototype.split('\n'): always at least one piece
RECURSIVE SplitLines(_)
SplitLines(s) ==
    IF \A i \in 1..Len(s) : s[i] # NL THEN <<s>>
    ELSE LET k == CHOOSE i \in 1..Len(s) :
                      s[i] = NL /\ \A j \in 1..(i - 1) : s[j] # NL
         IN  <<SubSeq(s, 1, k - 1)>> \o SplitLines(SubSeq(s, k + 1, Len(s)))

\* /[\u0590-\u05FF]/.test(line)
ContainsHebrew(line) == \E i \in 1..Len(line) : line[i] \in HebrewFirst..HebrewLast

\* Number.prototype.toString / template literal, base 10
RECURSIVE Digits(_)
Digits(n) == IF n < 10 THEN <<48 + n>> ELSE Digits(n \div 10) \o <<48 + (n % 10)>>

DecimalText(n) == IF n < 0 THEN <<45>> \o Digits(0 - n) ELSE Digits(n)

\* font.widthOfTextAtSize(text, size): every glyph advances half an em
WidthOfTextAtSize(text, size) == (Len(text) * size * Scale) \div 2

\* ---------------------------------------------------------------- events
FontEvent(step) ==
    [kind |-> "font", step |-> step, page |-> 0, text |-> <<>>, x |-> 0, y |-> 0]

DrawEvent(step, page, text, x, y) ==
    [kind |-> "draw", step |-> step, page |-> page, text |-> text, x |-> x, y |-> y]

SaveEvent ==
    [kind |-> "save", step |-> "save", page |-> 0, text |-> <<>>, x |-> 0, y |-> 0]

NoResult == [status |-> "none", error |-> "none", via |-> "none", overlays |-> <<>>]

IsDraw(e) == e.kind = "draw"

Returned(log) ==
    [status |-> "ok", error |-> "none", via |-> "return", overlays |-> SelectSeq(log, IsDraw)]

\* the outer catch: the editor rethrows, the older implementations alert and return null
Failed(v, kind) ==
    [status |-> "error", error |-> kind,
     via |-> IF v = "editor" THEN "throw" ELSE "alert", overlays |-> <<>>]

\* ------------------------------------------------------ page numbering step
Positions ==
    {"bottom-center", "bottom-right", "bottom-left", "top-center", "top-right", "top-left"}

\* position.includes(word), for the words the code tests
Includes(position, word) ==
    CASE word = "bottom" -> position \in {"bottom-center", "bottom-right", "bottom-left"}
      [] word = "top"    -> position \in {"top-center", "top-right", "top-left"}
      [] word = "center" -> position \in {"bottom-center", "top-center"}
      [] word = "right"  -> position \in {"bottom-right", "top-right"}
      [] word = "left"   -> position \in {"bottom-left", "top-left"}
      [] OTHER           -> FALSE

\* the right-hand cases without their margin
SwitchXNoRightMargin(position, width, textWidth) ==
    CASE position = "bottom-center" -> (width - textWidth) \div 2
      [] position = "bottom-right"  -> width - textWidth
      [] position = "bottom-left"   -> Pt(NumberMargin50)
      [] position = "top-center"    -> (width - textWidth) \div 2
      [] position = "top-right"     -> width - textWidth
      [] position = "top-left"      -> Pt(NumberMargin50)
      [] OTHER                      -> 0

\* the switch of PDFEditor.tsx
SwitchX(position, width, textWidth) ==
    CASE position = "bottom-center" -> (width - textWidth) \div 2
      [] position = "bottom-right"  -> width - textWidth - Pt(NumberMargin50)
      [] position = "bottom-left"   -> Pt(NumberMargin50)
      [] position = "top-center"    -> (width - textWidth) \div 2
      [] position = "top-right"     -> width - textWidth - Pt(NumberMargin50)
      [] position = "top-left"      -> Pt(NumberMargin50)
      [] OTHER                      -> 0

SwitchY(position, height) ==
    CASE position = "bottom-center" -> Pt(NumberMargin50)
      [] position = "bottom-right"  -> Pt(NumberMargin50)
      [] position = "bottom-left"   -> Pt(NumberMargin50)
      [] position = "top-center"    -> height - Pt(NumberMargin50)
      [] position = "top-right"     -> height - Pt(NumberMargin50)
      [] position = "top-left"      -> height - Pt(NumberMargin50)
      [] OTHER                      -> 0

\* the if / else-if chains of part_001 and part_002
IncludesX(position, width, textWidth) ==
    IF Includes(position, "center") THEN (width - textWidth) \div 2
    ELSE IF Includes(position, "right") THEN width - textWidth - Pt(NumberMargin30)
    ELSE IF Includes(position, "left") THEN Pt(NumberMargin30)
    ELSE 0

IncludesY(position, height) ==
    IF Includes(position, "bottom") THEN Pt(NumberMargin30)
    ELSE IF Includes(position, "top") THEN height - Pt(NumberMargin30)
    ELSE 0

\* the loop with pageText = `${i}`: labels start at 0
NumberDrawsEditorFromZero(pgs, pn) ==
    [k \in 1..Len(pgs) |->
        LET pageText  == DecimalText(k - 1)
            textWidth == WidthOfTextAtSize(pageText, pn.fontSize)
        IN  DrawEvent("num", k, pageText,
                      SwitchX(pn.position, pgs[k].width, textWidth),
                      SwitchY(pn.position, pgs[k].height))]

\* PDFEditor.tsx: for (i = 0; i < pages.length; i++) with pageText = `${i + 1}`
NumberDrawsEditor(pgs, pn) ==
    [k \in 1..Len(pgs) |->
        LET pageText  == DecimalText(k)
            textWidth == WidthOfTextAtSize(pageText, pn.fontSize)
        IN  DrawEvent("num", k, pageText,
                      SwitchX(pn.position, pgs[k].width, textWidth),
                      SwitchY(pn.position, pgs[k].height))]

\* part_001: for (i = startPageIndex; i < pages.length; i++) with currentNumber++
NumberDrawsCounter(pgs, pn) ==
    LET startPageIndex == Min(pn.startPage - 1, Len(pgs) - 1)
    IN  [k \in 1..(Len(pgs) - startPageIndex) |->
            LET i              == startPageIndex + k - 1
                pageNumberText == DecimalText(pn.startNumber + k - 1)
                textWidth      == WidthOfTextAtSize(pageNumberText, pn.fontSize)
            IN  DrawEvent("num", i + 1, pageNumberText,
                          IncludesX(pn.position, pgs[i + 1].width, textWidth),
                          IncludesY(pn.position, pgs[i + 1].height))]

\* part_002 runs the same loop with its one shared font
NumberDrawsShared(pgs, pn) == NumberDrawsCounter(pgs, pn)

NumberDraws(v, pgs, pn) ==
    CASE v = "editor"  -> NumberDrawsEditor(pgs, pn)
      [] v = "counter" -> NumberDrawsCounter(pgs, pn)
      [] v = "shared"  -> NumberDrawsShared(pgs, pn)

\* the flag is not consulted
NumberingGateIgnoresFlag(v, d) == d.pageNumbering.startPage > 0

\* the condition that guards the page numbering step
NumberingGate(v, d) ==
    IF v = "editor" THEN d.pageNumbering.enabled ELSE d.pageNumbering.startPage > 0

\* ------------------------------------------------------------- header step
\* every page, whatever firstPageOnly is
PagesToProcessAll(pgs, h) == [k \in 1..Len(pgs) |-> k]

\* pagesToProcess = firstPageOnly ? [pages[0]] : pages, as 1-based page numbers
PagesToProcess(pgs, h) ==
    IF h.firstPageOnly THEN <<1>> ELSE [k \in 1..Len(pgs) |-> k]

\* PDFEditor.tsx: one drawText of the whole text on every page to process
HeaderDrawsEditor(pgs, h) ==
    LET targets == PagesToProcess(pgs, h)
    IN  [k \in 1..Len(targets) |->
            LET p         == targets[k]
                textWidth == WidthOfTextAtSize(h.text, h.fontSize)
            IN  DrawEvent("hdr", p, h.text,
                          pgs[p].width - textWidth - Pt(h.distanceFromRight),
                          pgs[p].height - Pt(h.distanceFromTop))]

\* part_001: the loop over the lines of one page, y moving down after each drawn line
RECURSIVE LineDraws(_, _, _, _, _, _)
LineDraws(p, width, lines, y, marginRight, fontSize) ==
    IF lines = <<>> THEN <<>>
    ELSE LET line == Head(lines)
         IN  IF Trim(line) = <<>>
             THEN LineDraws(p, width, Tail(lines), y, marginRight, fontSize)
             ELSE LET textWidth == WidthOfTextAtSize(line, fontSize)
                      x == IF ContainsHebrew(line)
                           THEN width - marginRight - textWidth
                           ELSE marginRight
                  IN  <<DrawEvent("hdr", p, line, Max(0, x), y)>>
                      \o LineDraws(p, width, Tail(lines), y - LineAdvance(fontSize),
                                   marginRight, fontSize)

RECURSIVE PageLoop(_, _, _)
PageLoop(targets, pgs, h) ==
    IF targets = <<>> THEN <<>>
    ELSE LET p           == Head(targets)
             marginRight == CmToPt(h.distanceFromRight)
             marginTop   == CmToPt(h.distanceFromTop)
         IN  LineDraws(p, pgs[p].width, SplitLines(Trim(h.text)),
                       pgs[p].height - marginTop, marginRight, h.fontSize)
             \o PageLoop(Tail(targets), pgs, h)

HeaderDrawsCounter(pgs, h) == PageLoop(PagesToProcess(pgs, h), pgs, h)

\* part_002 runs the same loops with its one shared font
HeaderDrawsShared(pgs, h) == HeaderDrawsCounter(pgs, h)

HeaderDraws(v, pgs, h) ==
    CASE v = "editor"  -> HeaderDrawsEditor(pgs, h)
      [] v = "counter" -> HeaderDrawsCounter(pgs, h)
      [] v = "shared"  -> HeaderDrawsShared(pgs, h)

\* the text is tested without trimming
HeaderGateNoTrim(v, d) == d.header.enabled /\ d.header.text # <<>>

\* the condition that guards the header step
HeaderGate(v, d) ==
    IF v = "editor"
    THEN d.header.enabled /\ Trim(d.header.text) # <<>>
    ELSE d.header.text # <<>> /\ Trim(d.header.text) # <<>>

\* ------------------------------------------------------------------ inputs
A4 == [width |-> Pt(595), height |-> Pt(842)]

Card == [width |-> Pt(100), height |-> Pt(150)]

PageSizes == <<A4, Card>>

\* documents of 0..MaxPages pages whose page sizes alternate
Document(first, n) == [k \in 1..n |-> PageSizes[((first + k) % 2) + 1]]

Documents == {Document(first, n) : first \in 0..1, n \in 0..MaxPages}

TextEmpty == <<>>

\* " \n "
TextBlank == <<32, NL, 32>>

\* "AB"
TextLatin == <<65, 66>>

TextHebrew == <<Shin, Shin, Shin>>

\* " A", " ", "<shin>B", "", "B " : three non-blank lines, one of them Hebrew
TextLines == <<32, 65, NL, 32, NL, Shin, 66, NL, NL, 66, 32>>

\* the two ends of the Hebrew block and their outer neighbours, one per line
TextEdges == <<HebrewLast, NL, HebrewLast + 1, NL, HebrewFirst, NL, HebrewFirst - 1>>

Texts == {TextEmpty, TextBlank, TextLatin, TextHebrew, TextLines, TextEdges}

\* header distances as the form of each implementation holds them:
\* points in the editor, half centimetres in part_001 and part_002
RightChoices(v) == IF v = "editor" THEN {50, 700} ELSE {5, 50}

TopDefault(v) == IF v = "editor" THEN 50 ELSE 5

NumberingAll ==
    [enabled : BOOLEAN, startPage : 0..(MaxPages + 1), startNumber : {1, 9},
     position : Positions, fontSize : {12}, font : {"Times-New-Roman"}, bold : {FALSE}]

NumberingFew ==
    [enabled : BOOLEAN, startPage : {0, 1}, startNumber : {1},
     position : {"bottom-center"}, fontSize : {12}, font : {"Times-New-Roman"},
     bold : BOOLEAN]

HeaderAll(v) ==
    [enabled : BOOLEAN, text : Texts, firstPageOnly : BOOLEAN,
     distanceFromRight : RightChoices(v), distanceFromTop : {TopDefault(v)},
     fontSize : {10, 12}, font : {"Times-New-Roman"}, bold : {FALSE}]

HeaderFew(v) ==
    [enabled : BOOLEAN, text : {TextEmpty, TextLatin}, firstPageOnly : {TRUE},
     distanceFromRight : {TopDefault(v)}, distanceFromTop : {TopDefault(v)},
     fontSize : {12}, font : {"Times-New-Roman", "Roboto"}, bold : {FALSE}]

\* only the editor's EditorSettings has the enabled fields; in part_001 and
\* part_002 the field is absent and the record carries TRUE in its place
HasEnabledFlag(v) == v = "editor"

Settings(v) ==
    {d \in [pageNumbering : NumberingAll, header : HeaderFew(v)]
            \cup [pageNumbering : NumberingFew, header : HeaderAll(v)] :
        HasEnabledFlag(v) \/ (d.pageNumbering.enabled /\ d.header.enabled)}

\* ------------------------------------------------------------- applyEdits
\* no call of loadCustomFont is under way
FontIdle ==
    /\ fontImpl = "editor" /\ fontName = "Times-New-Roman" /\ bold = FALSE
    /\ fontPc = "idle" /\ fontPath = "none"
    /\ fetched = "none" /\ embedded = "none" /\ probed = "none" /\ returned = "none"

\* a stored document: the file it was loaded from, the settings whose
\* overlays it carries in the order they were drawn, the pass that saved it
NoDoc == [file |-> 0, applied |-> <<>>, request |-> 0]

\* no editor component is mounted and no file is being picked
UiIdle ==
    /\ ui = "none" /\ mounted = FALSE /\ pdfBytes = 0 /\ watchedValues = 0
    /\ hasChanges = FALSE /\ isLoading = FALSE /\ error = "none" /\ alerted = "none"
    /\ modifiedPdfBytes = NoDoc /\ previewUrl = 0 /\ urls = <<>>
    /\ passes = <<>> /\ loads = <<>> /\ delivered = NoDoc
    /\ debounceTimer = [file |-> 0, data |-> 0, previewUrl |-> 0]

UploadIdle == uploadPath = "none" /\ picked = 0

\* the page fields of a component that is not mounted
FormIdle == numPages = 0 /\ pageNumber = 1 /\ startPage = 1

WizardIdle ==
    /\ currentStep = "upload" /\ editedPdfBytes = NoDoc
    /\ editorSettings = 0 /\ uploads = <<>>

Init ==
    /\ variant \in Variants
    /\ pages \in Documents
    /\ data \in Settings(variant)
    /\ pc = "load"
    /\ calls = <<>>
    /\ result = NoResult
    /\ FontIdle
    /\ UiIdle
    /\ UploadIdle
    /\ FormIdle
    /\ WizardIdle

\* PDFDocument.load; part_002 fetches and embeds its one font right after it
LoadDocument ==
    /\ pc = "load"
    /\ pc' = "check"
    /\ calls' = IF variant = "shared" THEN Append(calls, FontEvent("shared")) ELSE calls
    /\ UNCHANGED <<variant, pages, data, result>>
    /\ UNCHANGED outsideApplyEdits

\* the page count is not tested
CheckPagesSkipped ==
    /\ pc = "check"
    /\ pc' = "numbering"
    /\ UNCHANGED <<variant, pages, data, calls, result>>
    /\ UNCHANGED outsideApplyEdits

\* if (pages.length === 0) throw
CheckPages ==
    /\ pc = "check"
    /\ IF Len(pages) = 0
       THEN /\ result' = Failed(variant, "empty")
            /\ pc' = "done"
       ELSE /\ result' = result
            /\ pc' = "numbering"
    /\ UNCHANGED <<variant, pages, data, calls>>
    /\ UNCHANGED outsideApplyEdits

\* the guard of the page numbering step and its await loadCustomFont
NumberingStep ==
    /\ pc = "numbering"
    /\ IF NumberingGate(variant, data)
       THEN /\ pc' = "numDraw"
            /\ calls' = IF variant = "shared" THEN calls
                        ELSE Append(calls, FontEvent("num"))
       ELSE /\ pc' = "header"
            /\ calls' = calls
    /\ UNCHANGED <<variant, pages, data, result>>
    /\ UNCHANGED outsideApplyEdits

\* what the caller sees when something raises inside the page numbering step
NumberingFailure(v) == Failed(v, IF v = "editor" THEN "pageNumbering" ELSE "raw")

\* the page loop: it either runs to its end or raises after n drawText calls
NumberingDraw ==
    /\ pc = "numDraw"
    /\ LET draws == NumberDraws(variant, pages, data.pageNumbering)
       IN  \/ /\ calls' = calls \o draws
              /\ pc' = "header"
              /\ result' = result
           \/ \E n \in 0..(Len(draws) - 1) :
                 /\ calls' = calls \o SubSeq(draws, 1, n)
                 /\ pc' = "done"
                 /\ result' = NumberingFailure(variant)
    /\ UNCHANGED <<variant, pages, data>>
    /\ UNCHANGED outsideApplyEdits

\* the guard of the header step and its await loadCustomFont
HeaderStep ==
    /\ pc = "header"
    /\ IF HeaderGate(variant, data)
       THEN /\ pc' = "hdrDraw"
            /\ calls' = IF variant = "shared" THEN calls
                        ELSE Append(calls, FontEvent("hdr"))
       ELSE /\ pc' = "save"
            /\ calls' = calls
    /\ UNCHANGED <<variant, pages, data, result>>
    /\ UNCHANGED outsideApplyEdits

\* the header loops: they either run to their end or raise after n drawText calls
HeaderDraw ==
    /\ pc = "hdrDraw"
    /\ LET draws == HeaderDraws(variant, pages, data.header)
       IN  \/ /\ calls' = calls \o draws
              /\ pc' = "save"
              /\ result' = result
           \/ \E n \in 0..(Len(draws) - 1) :
                 /\ calls' = calls \o SubSeq(draws, 1, n)
                 /\ pc' = "done"
                 /\ result' = Failed(variant, "header")
    /\ UNCHANGED <<variant, pages, data>>
    /\ UNCHANGED outsideApplyEdits

\* the document is saved before the header step
SaveBeforeHeader ==
    /\ pc = "header"
    /\ \A i \in 1..Len(calls) : calls[i].kind # "save"
    /\ calls' = Append(calls, SaveEvent)
    /\ UNCHANGED <<variant, pages, data, pc, result>>
    /\ UNCHANGED outsideApplyEdits

\* await pdfDoc.save() and the return of the bytes
Save ==
    /\ pc = "save"
    /\ calls' = Append(calls, SaveEvent)
    /\ result' = Returned(calls)
    /\ pc' = "done"
    /\ UNCHANGED <<variant, pages, data>>
    /\ UNCHANGED outsideApplyEdits

Next ==
    \/ LoadDocument
    \/ CheckPages
    \/ NumberingStep
    \/ NumberingDraw
    \/ HeaderStep
    \/ HeaderDraw
    \/ Save

Spec == Init /\ [][Next]_vars

\* ------------------------------------------------------- reading the log
Idx == 1..Len(calls)

\* the drawText calls of one step on one page, in call order
DrawsOf(step, p) ==
    SelectSeq(calls, LAMBDA e : e.kind = "draw" /\ e.step = step /\ e.page = p)

Texts_(evs) == [k \in 1..Len(evs) |-> evs[k].text]

NoEventOf(step) == \A i \in Idx : calls[i].step # step

\* the page numbering step ran to its end
NumberingFinished ==
    /\ NumberingGate(variant, data)
    /\ \/ pc \in {"header", "hdrDraw", "save"}
       \/ pc = "done" /\ result.error \in {"none", "header"}

\* the header step ran to its end
HeaderFinished ==
    /\ HeaderGate(variant, data)
    /\ \/ pc = "save"
       \/ pc = "done" /\ result.status = "ok"

\* ------------------------------------------------------------------ C1
\* C1: when the page numbering step has run on a document and
\* 1 <= startPage <= pageCount, pages before startPage carry no page number
\* and every page p >= startPage carries exactly one, the decimal text of
\* startNumber + (p - startPage).
C1_CounterSeededLabels ==
    LET pn == data.pageNumbering
    IN  (NumberingFinished /\ 1 <= pn.startPage /\ pn.startPage <= Len(pages)) =>
            \A p \in 1..Len(pages) :
                Texts_(DrawsOf("num", p)) =
                    IF p < pn.startPage THEN <<>>
                    ELSE <<DecimalText(pn.startNumber + (p - pn.startPage))>>

\* ------------------------------------------------------------------ C2
\* C2: on a document with zero pages applyEdits ends with the empty-document
\* error before either step starts: no font is loaded for a step, no drawText
\* is issued, the document is not saved and no bytes are returned.
C2_EmptyDocumentStopsFirst ==
    Len(pages) = 0 =>
        /\ pc \in {"load", "check", "done"}
        /\ NoEventOf("num") /\ NoEventOf("hdr") /\ NoEventOf("save")
        /\ result.status # "ok" /\ result.overlays = <<>>
        /\ pc = "done" => (result.status = "error" /\ result.error = "empty")

C2_Witness ==
    Len(pages) = 0 /\ pc = "done" /\ result.error = "empty"

\* ------------------------------------------------------------------ C3
\* C3: every page-number drawText precedes the load of the header font and
\* every header drawText, and save is the last call of a run, issued only
\* when no step is left to run.
C3_NumberingBeforeHeaderBeforeSave ==
    /\ \A i, j \in Idx :
          (calls[i].step = "num" /\ calls[j].step = "hdr") => i < j
    /\ \A i \in Idx :
          calls[i].kind = "save" => (i = Len(calls) /\ pc = "done" /\ result.status = "ok")

C3_Witness ==
    /\ pc = "done" /\ result.status = "ok"
    /\ Len(pages) >= 2
    /\ \E i, j, k, l \in Idx :
          /\ calls[i].kind = "draw" /\ calls[i].step = "num"
          /\ calls[j].kind = "font" /\ calls[j].step = "hdr"
          /\ calls[k].kind = "draw" /\ calls[k].step = "hdr"
          /\ calls[l].kind = "save"

\* ------------------------------------------------------------------ C4
\* C4: a step whose own enabled flag is false leaves no call in the log,
\* whatever the other flag is; with both flags false no font is loaded and
\* no drawText is issued, and the run still saves and returns the document.
C4_DisabledStepsAreSkipped ==
    /\ ~data.pageNumbering.enabled => NoEventOf("num")
    /\ ~data.header.enabled => NoEventOf("hdr")
    /\ (~data.pageNumbering.enabled /\ ~data.header.enabled) =>
          /\ \A i \in Idx : calls[i].kind = "save"
          /\ (pc = "done" /\ Len(pages) >= 1) =>
                (result.status = "ok" /\ result.overlays = <<>> /\ calls = <<SaveEvent>>)

C4_Witness ==
    /\ ~data.pageNumbering.enabled /\ ~data.header.enabled
    /\ data.header.text = TextLatin /\ data.pageNumbering.startPage = 1
    /\ pc = "done" /\ result.status = "ok"

\* ------------------------------------------------------------------ C5
\* C5: whatever integer startPage is, on a document of at least one page the
\* first page that receives a page number is min(max(startPage, 1), pageCount).
FirstNumberedPage ==
    CHOOSE p \in 1..Len(pages) :
        /\ DrawsOf("num", p) # <<>>
        /\ \A q \in 1..(p - 1) : DrawsOf("num", q) = <<>>

C5_StartPageClamped ==
    LET requested == data.pageNumbering.enabled
        passed    == \/ pc \in {"header", "hdrDraw", "save"}
                     \/ pc = "done" /\ result.error \in {"none", "header"}
    IN  (requested /\ passed /\ Len(pages) >= 1) =>
            /\ \E p \in 1..Len(pages) : DrawsOf("num", p) # <<>>
            /\ FirstNumberedPage = Min(Max(data.pageNumbering.startPage, 1), Len(pages))

\* ------------------------------------------------------------------ C6
\* a header distance of the settings, in points
DistancePt(v, d) == IF v = "editor" THEN Pt(d) ELSE CmToPt(d)

NonBlank(line) == Trim(line) # <<>>

HeaderTargets == IF data.header.firstPageOnly THEN {1} ELSE 1..Len(pages)

\* C6: a header text whose split on newlines has k non-blank lines gives k
\* drawText calls on each target page, one per non-blank line in order, the
\* first at y = pageHeight - distanceFromTop and each later one fontSize * 1.5
\* below the line drawn before it.
C6_OneDrawPerNonBlankLine ==
    LET h        == data.header
        nonBlank == SelectSeq(SplitLines(h.text), NonBlank)
    IN  HeaderFinished =>
            \A p \in HeaderTargets :
                LET draws == DrawsOf("hdr", p)
                IN  /\ Len(draws) = Len(nonBlank)
                    /\ \A k \in 1..Len(draws) :
                          /\ Trim(draws[k].text) = Trim(nonBlank[k])
                          /\ draws[k].y = pages[p].height
                                            - DistancePt(variant, h.distanceFromTop)
                                            - (k - 1) * LineAdvance(h.fontSize)

\* ------------------------------------------------------------------ C7
\* C7: a drawn header line with a character in U+0590..U+05FF is at
\* x = max(0, pageWidth - distanceFromRight - textWidth), any other line at
\* x = max(0, distanceFromRight); no header drawText has x < 0.
C7_HebrewRightLatinLeft ==
    \A i \in Idx :
        (calls[i].kind = "draw" /\ calls[i].step = "hdr") =>
            LET e         == calls[i]
                right     == DistancePt(variant, data.header.distanceFromRight)
                textWidth == WidthOfTextAtSize(e.text, data.header.fontSize)
            IN  /\ e.x >= 0
                /\ e.x = IF ContainsHebrew(e.text)
                         THEN Max(0, pages[e.page].width - right - textWidth)
                         ELSE Max(0, right)

\* ------------------------------------------------------------------ C8
\* C8: the header step draws on no page outside its target set, and once it
\* has run to its end the pages it drew on are exactly page 1 when
\* firstPageOnly is set and exactly all pages otherwise.
C8_HeaderTargetPages ==
    /\ \A i \in Idx :
          (calls[i].kind = "draw" /\ calls[i].step = "hdr") => calls[i].page \in HeaderTargets
    /\ HeaderFinished =>
          {p \in 1..Len(pages) : DrawsOf("hdr", p) # <<>>} = HeaderTargets

C8_Witness ==
    /\ HeaderFinished /\ pc = "done"
    /\ Len(pages) = MaxPages
    /\ ~data.header.firstPageOnly
    /\ \A p \in 1..Len(pages) : DrawsOf("hdr", p) # <<>>

\* ------------------------------------------------------------------ C9
\* C9: header calls occur only when header.enabled is true and the text is
\* non-blank after trimming; with an empty or whitespace-only text no header
\* font is loaded, no header drawText is issued, the run never ends with the
\* header error and, having passed page numbering, it ends successfully.
C9_BlankHeaderIsSkipped ==
    LET blank == Trim(data.header.text) = <<>>
    IN  /\ ~NoEventOf("hdr") => (data.header.enabled /\ ~blank)
        /\ blank =>
              /\ NoEventOf("hdr")
              /\ pc # "hdrDraw"
              /\ result.error # "header"
              /\ (pc = "done" /\ result.error \notin {"empty", "pageNumbering", "raw"}) =>
                    (result.status = "ok" /\ calls[Len(calls)] = SaveEvent)

C9_Witness ==
    /\ data.header.enabled
    /\ data.header.text = TextBlank
    /\ pc = "done" /\ result.status = "ok"

\* ------------------------------------------------------------------ C10
\* the draw origin of the claim for one position, page and margin
OriginX(position, width, textWidth, margin) ==
    CASE position \in {"bottom-center", "top-center"} -> (width - textWidth) \div 2
      [] position \in {"bottom-right", "top-right"}   -> width - textWidth - margin
      [] position \in {"bottom-left", "top-left"}     -> margin

OriginY(position, height, margin) ==
    CASE position \in {"bottom-center", "bottom-right", "bottom-left"} -> margin
      [] position \in {"top-center", "top-right", "top-left"}          -> height - margin

\* C10: for each of the six positions every page-number drawText is at
\* x = (pageWidth - textWidth) / 2, pageWidth - textWidth - margin or margin
\* and y = margin or pageHeight - margin, with one margin constant of the
\* implementation used on both axes and on every page.
C10_PageNumberOrigin ==
    \E margin \in {Pt(NumberMargin30), Pt(NumberMargin50)} :
        \A i \in Idx :
            (calls[i].kind = "draw" /\ calls[i].step = "num") =>
                LET e         == calls[i]
                    pn        == data.pageNumbering
                    textWidth == WidthOfTextAtSize(e.text, pn.fontSize)
                IN  /\ e.x = OriginX(pn.position, pages[e.page].width, textWidth, margin)
                    /\ e.y = OriginY(pn.position, pages[e.page].height, margin)

C10_Witness ==
    /\ NumberingFinished /\ pc = "done"
    /\ data.pageNumbering.position = "top-right"
    /\ DrawsOf("num", 1) # <<>> /\ DrawsOf("num", 2) # <<>>
    /\ pages[1] # pages[2]

\* ------------------------------------------------------------------ C13
\* the drawText calls of one step, in call order
StepDraws(step) == SelectSeq(calls, LAMBDA e : e.kind = "draw" /\ e.step = step)

\* C13: on a document of N >= 1 pages with startPage = 1 and startNumber = 1
\* the page numbering step draws exactly N labels, and page i carries the
\* decimal text of i.
C13_DefaultNumberingLabelsEveryPage ==
    LET pn == data.pageNumbering
    IN  (NumberingFinished /\ Len(pages) >= 1 /\ pn.startPage = 1 /\ pn.startNumber = 1) =>
            /\ Len(StepDraws("num")) = Len(pages)
            /\ \A i \in 1..Len(pages) : Texts_(DrawsOf("num", i)) = <<DecimalText(i)>>

C13_Witness ==
    /\ NumberingFinished /\ pc = "done" /\ result.status = "ok"
    /\ Len(pages) = MaxPages
    /\ data.pageNumbering.startPage = 1 /\ data.pageNumbering.startNumber = 1
    /\ Len(StepDraws("num")) = MaxPages

\* ---------------------------------------------------------------------
\* loadCustomFont(pdfDoc, fontName, bold): the font a step draws with.
\* "editor" is the function of PDFEditor.tsx (and its copy in the
\* URL-preview editor), "counter" the one of the counter-seeded editor.

FontImpls == {"editor", "counter"}

\* the two families the form offers, and names the switch does not know
FontNames == {"Roboto", "Times-New-Roman", "Arial", "David", "Helvetica"}

\* outcomes of fetch(fontPath)
FetchOutcomes == {"networkError", "notOk", "ok"}

\* outcomes of pdfDoc.embedFont(fontBytes) and of font.encodeText(...)
CallOutcomes == {"ok", "raises"}

StandardFont == "TimesRoman"

\* no run of applyEdits is under way
ApplyIdle ==
    /\ variant = "editor" /\ pages = <<>> /\ data = "none"
    /\ pc = "idle" /\ calls = <<>> /\ result = NoResult

\* a switch that reads the bold flag for no family
FontPathOfIgnoringBold(name, isBold) ==
    CASE name = "Roboto" -> "Roboto-Regular.ttf"
      [] name = "Times-New-Roman" -> "times-new-roman.ttf"
      [] OTHER -> "none"

\* the asset the switch picks; "none" is the default branch
FontPathOf(name, isBold) ==
    CASE name = "Roboto" -> IF isBold THEN "Roboto-Bold.ttf" ELSE "Roboto-Regular.ttf"
      [] name = "Times-New-Roman" -> "times-new-roman.ttf"
      [] OTHER -> "none"

InitFont ==
    /\ ApplyIdle
    /\ fontImpl \in FontImpls
    /\ fontName \in FontNames
    /\ bold \in BOOLEAN
    /\ fontPc = "select"
    /\ fontPath = "none"
    /\ fetched = "none" /\ embedded = "none" /\ probed = "none"
    /\ returned = "none"
    /\ UiIdle
    /\ UploadIdle
    /\ FormIdle
    /\ WizardIdle

\* every catch block ends in embedFont(StandardFonts.TimesRoman)
FallBack ==
    /\ returned' = StandardFont
    /\ fontPc' = "done"

\* the switch on fontName; the default branch returns the standard font
\* ("editor") or throws into the catch that returns it ("counter")
FontSelect ==
    /\ fontPc = "select"
    /\ fontPath' = FontPathOf(fontName, bold)
    /\ IF FontPathOf(fontName, bold) = "none"
          THEN FallBack
          ELSE fontPc' = "fetch" /\ returned' = returned
    /\ UNCHANGED <<fontImpl, fontName, bold, fetched, embedded, probed>>
    /\ UNCHANGED outsideLoadCustomFont

\* does the implementation throw on a response whose ok flag is false?
FetchOkTested(impl) == impl = "editor"

\* await fetch(fontPath), and the test of fontResponse.ok where there is one
FontFetch ==
    /\ fontPc = "fetch"
    /\ \E outcome \in FetchOutcomes :
          /\ fetched' = outcome
          /\ IF \/ outcome = "networkError"
                \/ outcome = "notOk" /\ FetchOkTested(fontImpl)
                THEN FallBack
                ELSE fontPc' = "embed" /\ returned' = returned
    /\ UNCHANGED <<fontImpl, fontName, bold, fontPath, embedded, probed>>
    /\ UNCHANGED outsideLoadCustomFont

\* await pdfDoc.embedFont(fontBytes)
FontEmbed ==
    /\ fontPc = "embed"
    /\ \E outcome \in CallOutcomes :
          /\ embedded' = outcome
          /\ IF outcome = "raises"
                THEN FallBack
                ELSE fontPc' = "probe" /\ returned' = returned
    /\ UNCHANGED <<fontImpl, fontName, bold, fontPath, fetched, probed>>
    /\ UNCHANGED outsideLoadCustomFont

\* is a raising probe caught by the block that falls back?
ProbeFallsBack(impl) == impl = "editor"

\* font.encodeText of the Hebrew canary, then return font
FontProbe ==
    /\ fontPc = "probe"
    /\ \E outcome \in CallOutcomes :
          /\ probed' = outcome
          /\ IF outcome = "raises" /\ ProbeFallsBack(fontImpl)
                THEN FallBack
                ELSE fontPc' = "done" /\ returned' = fontPath
    /\ UNCHANGED <<fontImpl, fontName, bold, fontPath, fetched, embedded>>
    /\ UNCHANGED outsideLoadCustomFont

NextFont ==
    \/ FontSelect
    \/ FontFetch
    \/ FontEmbed
    \/ FontProbe

SpecFont == InitFont /\ [][NextFont]_vars

\* C11: loadCustomFont returns the standard fallback whenever the family
\* is unknown, the fetch failed or came back non-OK, or embedding raised.
C11_FallbackOnEveryFailure ==
    fontPc = "done" =>
        /\ returned # "none"
        /\ (\/ fontPath = "none"
            \/ fetched \in {"networkError", "notOk"}
            \/ embedded = "raises") => returned = StandardFont

\* C12: when the Hebrew canary probe raises after a successful fetch and
\* embed, the returned font is the standard fallback.
C12_ProbeFailureFallsBack ==
    (fontPc = "done" /\ fetched = "ok" /\ embedded = "ok" /\ probed = "raises")
        => returned = StandardFont

\* ---------------------------------------------------------------------
\* The editor components around applyEdits.  "editor" is PDFEditor.tsx
\* (preview through react-pdf, no object URL), "urlA" the counter-seeded
\* editor of part_001:101-704 and "urlB" the editor of part_001:812-1485
\* with the debounced updatePreview; both preview through object URLs.
\* A pass is one call of applyEdits seen from the component: what its
\* closure captured when it started, and how it ended.  page.tsx mounts
\* PDFEditor.tsx once its bytes are set and never changes them; the wizard
\* of part_004 hands a mounted editor other bytes when a second
\* handleFileUpload, started while the uploader was still shown, resolves
\* after the first (PDFUploader.tsx:80 does not await onUpload).

UIs == {"editor", "urlA", "urlB"}

PreviewsByUrl(u) == u \in {"urlA", "urlB"}

\* asynchronous operations one component starts after its mount: passes
\* of applyEdits, and reloads for other bytes
MaxRequests == 2

Started == Len(passes) + IF loads = <<>> THEN 0 ELSE Len(loads) - 1

\* values of the form
FormValues == {1, 2}

\* messages of a failed applyEdits
ErrorKinds == {"empty", "pageNumbering", "header"}

NoTimer == [file |-> 0, data |-> 0, previewUrl |-> 0]

Pass(file, values, url) ==
    [file |-> file, data |-> values, previewUrl |-> url, state |-> "running"]

Load(file) == [file |-> file, state |-> "running", url |-> 0, cleaned |-> FALSE]

\* setTimeout(() => updatePreview(), 500) with what the closure captured
Timer(file, values, url) == [file |-> file, data |-> values, previewUrl |-> url]

Running(seq) == {k \in 1..Len(seq) : seq[k].state = "running"}

\* URL.createObjectURL gives the next handle; URL.revokeObjectURL(u)
NewUrl == Len(urls) + 1

Revoke(us, u) == IF u = 0 THEN us ELSE [us EXCEPT ![u] = "revoked"]

Live == {u \in 1..Len(urls) : urls[u] = "live"}

\* PDFDocument.load(modifiedPdfBytes || pdfBytes): the overlays of the
\* stored result are already on the pages
LoadedOverlaysOfStored(stored) == stored.applied

\* the document applyEdits starts from: PDFDocument.load(pdfBytes), a fresh
\* copy of the uploaded file without overlays
LoadedOverlays(stored) == <<>>

\* pdfDoc.save() of pass k
Saved(k, stored) ==
    [file |-> passes[k].file,
     applied |-> LoadedOverlays(stored) \o <<passes[k].data>>,
     request |-> k]

InitUI ==
    /\ ApplyIdle
    /\ FontIdle
    /\ UploadIdle
    /\ FormIdle
    /\ WizardIdle
    /\ ui \in UIs
    /\ mounted = TRUE
    /\ pdfBytes = 1
    /\ watchedValues = 1
    \* the effect on [watchedValues] has run once after the first render
    /\ hasChanges = (ui = "editor")
    /\ isLoading = (ui = "editor")
    /\ error = "none"
    /\ alerted = "none"
    /\ modifiedPdfBytes = NoDoc
    /\ previewUrl = 0
    /\ urls = <<>>
    /\ passes = <<>>
    \* the effect on [pdfBytes] has called loadPdf()
    /\ loads = IF PreviewsByUrl(ui) THEN <<Load(1)>> ELSE <<>>
    \* the effect on [watchedValues, pdfBytes] has armed the timer
    /\ debounceTimer = IF ui = "urlB" THEN Timer(1, 1, 0) ELSE NoTimer
    /\ delivered = NoDoc

\* what the component and the file picker leave alone
outsideUI == <<applyVars, fontVars, uploadVars, formVars, wizardVars>>

\* a field of the form changes: watch() returns new values, the effect on
\* [watchedValues] sets hasChanges ("editor") or re-arms the timer ("urlB")
FormChange ==
    /\ mounted
    /\ \E v \in FormValues :
          /\ watchedValues' = v
          /\ hasChanges' = IF ui = "editor" THEN TRUE ELSE hasChanges
          /\ debounceTimer' = IF ui = "urlB" THEN Timer(pdfBytes, v, previewUrl)
                              ELSE debounceTimer
    /\ UNCHANGED <<ui, mounted, pdfBytes, isLoading, error, alerted, modifiedPdfBytes,
                   previewUrl, urls, passes, loads, delivered>>
    /\ UNCHANGED outsideUI

\* may handleApplyChanges go past its early returns?
MayApply == ui = "editor" => hasChanges /\ pdfBytes # 0

\* handleApplyChanges up to its await: the pass starts with the values
\* of the render the handler belongs to
StartPass(file, values, url) ==
    /\ Started < MaxRequests
    /\ passes' = Append(passes, Pass(file, values, url))
    /\ isLoading' = TRUE
    /\ error' = IF ui = "editor" THEN "none" ELSE error

\* onSubmit={handleSubmit(handleApplyChanges)}
Submit ==
    /\ mounted
    /\ MayApply
    /\ StartPass(pdfBytes, watchedValues, previewUrl)
    /\ UNCHANGED <<ui, mounted, pdfBytes, watchedValues, hasChanges, alerted,
                   modifiedPdfBytes, previewUrl, urls, loads, debounceTimer, delivered>>
    /\ UNCHANGED outsideUI

\* handleDownload: hand over the stored result, or ("editor") apply first
Download ==
    /\ mounted
    /\ \/ /\ modifiedPdfBytes # NoDoc
          /\ delivered' = modifiedPdfBytes
          /\ UNCHANGED <<passes, isLoading, error>>
       \/ /\ modifiedPdfBytes = NoDoc
          /\ ui = "editor"
          /\ MayApply
          /\ StartPass(pdfBytes, watchedValues, previewUrl)
          /\ UNCHANGED delivered
    /\ UNCHANGED <<ui, mounted, pdfBytes, watchedValues, hasChanges, alerted,
                   modifiedPdfBytes, previewUrl, urls, loads, debounceTimer>>
    /\ UNCHANGED outsideUI

\* the 500 ms timer of the updatePreview effect expires
TimerFires ==
    /\ mounted
    /\ ui = "urlB"
    /\ debounceTimer # NoTimer
    /\ StartPass(debounceTimer.file, debounceTimer.data, debounceTimer.previewUrl)
    /\ debounceTimer' = NoTimer
    /\ UNCHANGED <<ui, mounted, pdfBytes, watchedValues, hasChanges, alerted,
                   modifiedPdfBytes, previewUrl, urls, loads, delivered>>
    /\ UNCHANGED outsideUI

\* what the catch block of handleApplyChanges stores as the result: it
\* never calls setModifiedPdfBytes, the half-drawn document is dropped
AfterFailureStoresPartial(stored, partial) == partial

AfterFailure(stored, partial) == stored

\* state setters do nothing once the component is unmounted
Set(new, old) == IF mounted THEN new ELSE old

\* the loading flag after the finally block of handleApplyChanges (or
\* updatePreview): cleared on both outcomes of the pass
FinallyOnSuccessOnly(ok, flag) == IF ok THEN FALSE ELSE flag

Finally(ok, flag) == FALSE

\* a pass of applyEdits settles and handleApplyChanges (or updatePreview)
\* runs from its await to its end
PassComplete ==
    \E k \in Running(passes) :
        /\ \/ \* applyEdits returned the saved bytes
              /\ passes' = [passes EXCEPT ![k].state = "ok"]
              /\ modifiedPdfBytes' = Set(Saved(k, modifiedPdfBytes), modifiedPdfBytes)
              /\ IF PreviewsByUrl(ui)
                    THEN /\ urls' = Append(Revoke(urls, passes[k].previewUrl), "live")
                         /\ previewUrl' = Set(NewUrl, previewUrl)
                         /\ hasChanges' = hasChanges
                    ELSE /\ hasChanges' = Set(FALSE, hasChanges)
                         /\ UNCHANGED <<urls, previewUrl>>
              /\ UNCHANGED <<error, alerted>>
           \/ \* applyEdits threw ("editor", "urlB") or alerted and returned null ("urlA")
              \E kind \in ErrorKinds :
                 /\ passes' = [passes EXCEPT ![k].state = "failed"]
                 /\ modifiedPdfBytes' =
                        Set(AfterFailure(modifiedPdfBytes,
                                [Saved(k, modifiedPdfBytes) EXCEPT !.request = 0 - k]),
                            modifiedPdfBytes)
                 /\ IF ui = "urlA"
                       THEN alerted' = kind /\ error' = error
                       ELSE error' = Set(kind, error) /\ alerted' = alerted
                 /\ UNCHANGED <<urls, previewUrl, hasChanges>>
        /\ isLoading' = Set(Finally(passes'[k].state = "ok", isLoading), isLoading)
        /\ UNCHANGED <<ui, mounted, pdfBytes, watchedValues, loads, debounceTimer, delivered>>
        /\ UNCHANGED outsideUI

\* loadPdf() of the effect on [pdfBytes] settles: the parent hands over
\* bytes that PDFDocument.load has accepted, so the load succeeds
LoadComplete ==
    \E k \in Running(loads) :
        /\ loads' = [loads EXCEPT ![k].state = "done", ![k].url = NewUrl]
        /\ urls' = Append(urls, "live")
        /\ previewUrl' = Set(NewUrl, previewUrl)
        /\ UNCHANGED <<ui, mounted, pdfBytes, watchedValues, hasChanges, isLoading, error,
                       alerted, modifiedPdfBytes, passes, debounceTimer, delivered>>
        /\ UNCHANGED outsideUI

\* the cleanup of the effect on [pdfBytes]: "urlB" revokes the url its
\* closure holds; in "urlA" the cleanup is returned by loadPdf, not by the
\* effect, and never runs
LoadCleanup(ls, us) ==
    IF ui = "urlB" /\ ls # <<>> THEN Revoke(us, ls[Len(ls)].url) ELSE us

Cleaned(ls) ==
    IF ui = "urlB" /\ ls # <<>> THEN [ls EXCEPT ![Len(ls)].cleaned = TRUE] ELSE ls

\* the parent renders the component with other bytes: the effects on
\* [pdfBytes] are cleaned up and run again; modifiedPdfBytes stays
ChangePdfBytes ==
    /\ mounted
    /\ PreviewsByUrl(ui)
    /\ Started < MaxRequests
    /\ pdfBytes' = pdfBytes + 1
    /\ urls' = LoadCleanup(loads, urls)
    /\ loads' = Append(Cleaned(loads), Load(pdfBytes + 1))
    /\ error' = IF ui = "urlB" THEN "none" ELSE error
    /\ debounceTimer' = IF ui = "urlB" THEN Timer(pdfBytes + 1, watchedValues, previewUrl)
                        ELSE debounceTimer
    /\ UNCHANGED <<ui, mounted, watchedValues, hasChanges, isLoading, alerted,
                   modifiedPdfBytes, previewUrl, passes, delivered>>
    /\ UNCHANGED outsideUI

\* the parent removes the component: every effect cleanup runs; the one of
\* "urlA" reads the previewUrl of the first render, the empty string
Unmount ==
    /\ mounted
    /\ mounted' = FALSE
    /\ urls' = LoadCleanup(loads, urls)
    /\ loads' = Cleaned(loads)
    /\ debounceTimer' = NoTimer
    /\ UNCHANGED <<ui, pdfBytes, watchedValues, hasChanges, isLoading, error, alerted,
                   modifiedPdfBytes, previewUrl, passes, delivered>>
    /\ UNCHANGED outsideUI

\* react-pdf reports on the displayed document: onDocumentLoadSuccess or
\* onDocumentLoadError
DocumentLoad ==
    /\ mounted
    /\ ui = "editor"
    /\ isLoading' = FALSE
    /\ error' \in {error, "documentLoad"}
    /\ UNCHANGED <<ui, mounted, pdfBytes, watchedValues, hasChanges, alerted,
                   modifiedPdfBytes, previewUrl, urls, passes, loads, debounceTimer,
                   delivered>>
    /\ UNCHANGED outsideUI

NextUI ==
    \/ FormChange
    \/ Submit
    \/ Download
    \/ TimerFires
    \/ PassComplete
    \/ LoadComplete
    \/ ChangePdfBytes
    \/ Unmount
    \/ DocumentLoad

SpecUI == InitUI /\ [][NextUI]_vars

\* ------------------------------------------------------------------ C14
\* pass k goes from running to failed in this step
FailsNow(k) == passes[k].state = "running" /\ passes'[k].state = "failed"

\* C14 as stated: when a pass of applyEdits fails, the component stores the
\* message in its error state and leaves modifiedPdfBytes and the preview
\* as they were.
C14_FailureStoresErrorKeepsResult ==
    [][\A k \in 1..Len(passes) :
          (mounted /\ FailsNow(k)) =>
              /\ error' \in ErrorKinds
              /\ modifiedPdfBytes' = modifiedPdfBytes
              /\ previewUrl' = previewUrl]_vars

\* C14, amended: when a pass of applyEdits fails, the message is displayed
\* (stored in the error state, or shown by alert in the counter-seeded
\* editor), modifiedPdfBytes and the preview keep their values, and what
\* is stored is never the half-drawn document.
C14_FailureReportedResultKept ==
    [][\A k \in 1..Len(passes) :
          (mounted /\ FailsNow(k)) =>
              /\ error' \in ErrorKinds \/ alerted' \in ErrorKinds
              /\ modifiedPdfBytes' = modifiedPdfBytes
              /\ modifiedPdfBytes'.request >= 0
              /\ previewUrl' = previewUrl]_vars

C14_Witness ==
    /\ mounted
    /\ \E k \in 1..Len(passes) :
          /\ passes[k].state = "failed"
          /\ modifiedPdfBytes # NoDoc /\ modifiedPdfBytes.request < k
    /\ error \in ErrorKinds \/ alerted \in ErrorKinds

\* ------------------------------------------------------------------ C15
\* C15: in the editors that preview through object URLs at most one
\* created preview URL is unrevoked in every reachable state.
C15_AtMostOneLiveUrl == Cardinality(Live) <= 1

\* ------------------------------------------------------------------ C16
\* nothing the component started is still running
Quiescent == Running(passes) = {} /\ Running(loads) = {}

\* C16: once the component is unmounted and every load and pass it started
\* has settled, every preview URL it created has been revoked.
C16_NoLiveUrlAfterUnmount == (~mounted /\ Quiescent) => Live = {}

\* ------------------------------------------------------------------ C17
\* C17: once all passes have completed (here: successfully), the stored
\* modifiedPdfBytes is the result of the most recently issued request.
C17_LatestRequestWins ==
    (/\ mounted
     /\ passes # <<>>
     /\ \A k \in 1..Len(passes) : passes[k].state = "ok")
        => modifiedPdfBytes.request = Len(passes)

\* ------------------------------------------------------------------ C18
\* C18: at no time are two passes of applyEdits in flight together.
C18_PassesSerialized == Cardinality(Running(passes)) <= 1

\* ------------------------------------------------------------------ C20
\* C20: the stored result carries the overlays of the settings of the pass
\* that saved it and nothing else, drawn on the uploaded file.
C20_NoAccumulation ==
    modifiedPdfBytes # NoDoc =>
        /\ modifiedPdfBytes.request \in 1..Len(passes)
        /\ modifiedPdfBytes.applied = <<passes[modifiedPdfBytes.request].data>>
        /\ modifiedPdfBytes.file = passes[modifiedPdfBytes.request].file

\* the same settings applied twice, the second result stored
C20_Witness ==
    /\ Len(passes) = 2
    /\ passes[1].state = "ok" /\ passes[2].state = "ok"
    /\ passes[1].data = passes[2].data
    /\ modifiedPdfBytes.request = 2

\* ---------------------------------------------------------------------
\* The file pickers.  "home" is handleFileChange of page.tsx with
\* validatePDF, "uploader" is handleFiles of PDFUploader.tsx followed by
\* the onUpload of part_004 (handleFileUpload), "editor" is handleFileChange
\* of PDFEditor.tsx, the picker the editor shows while it has no bytes.

UploadPaths == {"home", "uploader", "editor"}

MB == 1024 * 1024

\* file.size: below, at and just above the two ceilings
Sizes == <<MB, 10 * MB, 10 * MB + 1, 100 * MB, 100 * MB + 1>>

PdfType == "application/pdf"

\* the files a user may pick, numbered: file.type, file.size, whether the
\* bytes start with "%PDF-" and whether PDFDocument.load accepts them
FileIds == 1..(2 * Len(Sizes) * 2 * 2)

FileOf(id) ==
    LET n == id - 1
    IN  [type   |-> IF n % 2 = 0 THEN PdfType ELSE "text/plain",
         size   |-> Sizes[((n \div 2) % Len(Sizes)) + 1],
         header |-> (n \div (2 * Len(Sizes))) % 2 = 0,
         parses |-> (n \div (4 * Len(Sizes))) % 2 = 0]

\* the size ceiling: 10MB in PDFUploader.tsx, 100MB in page.tsx; the
\* editor's picker tests none, the larger one is asked of it
Ceiling(path) == IF path = "uploader" THEN 10 * MB ELSE 100 * MB

InitUpload ==
    /\ ApplyIdle
    /\ FontIdle
    /\ UiIdle
    /\ FormIdle
    /\ WizardIdle
    /\ uploadPath \in UploadPaths
    /\ picked = 0

\* what a picker leaves alone
outsideUpload ==
    <<applyVars, fontVars, formVars, wizardVars, ui, mounted, watchedValues, hasChanges, previewUrl,
      urls, passes, loads, debounceTimer, delivered, uploadPath>>

\* page.tsx: handleFileChange with validatePDF; the picker is rendered
\* while pdfBytes is null
HomePick ==
    /\ uploadPath = "home"
    /\ pdfBytes = 0
    /\ \E id \in FileIds, readable \in BOOLEAN :
          LET file == FileOf(id)
          IN  /\ picked' = id
              /\ IF file.size > Ceiling("home") THEN
                     error' = "tooLarge" /\ pdfBytes' = pdfBytes
                 ELSE IF file.type # PdfType THEN
                     error' = "notPdf" /\ pdfBytes' = pdfBytes
                 ELSE IF ~readable THEN
                     error' = "readError" /\ pdfBytes' = pdfBytes
                 ELSE IF ~file.header THEN
                     error' = "invalidPdf" /\ pdfBytes' = pdfBytes
                 ELSE
                     error' = "none" /\ pdfBytes' = id
    /\ UNCHANGED <<isLoading, alerted, modifiedPdfBytes>>
    /\ UNCHANGED outsideUpload

\* PDFUploader.tsx: handleFiles, and on success part_004: handleFileUpload,
\* which reads and parses the file again before setPdfBytes
UploaderPick ==
    /\ uploadPath = "uploader"
    /\ pdfBytes = 0
    /\ \E id \in FileIds, readable \in BOOLEAN :
          LET file == FileOf(id)
          IN  /\ picked' = id
              /\ IF file.type # PdfType THEN
                     error' = "notPdf" /\ pdfBytes' = pdfBytes /\ alerted' = alerted
                 ELSE IF file.size > Ceiling("uploader") THEN
                     error' = "tooLarge" /\ pdfBytes' = pdfBytes /\ alerted' = alerted
                 ELSE IF ~readable \/ ~file.parses THEN
                     error' = "invalidPdf" /\ pdfBytes' = pdfBytes /\ alerted' = alerted
                 ELSE
                     /\ error' = "none"
                     /\ \/ pdfBytes' = id /\ alerted' = alerted
                        \/ pdfBytes' = pdfBytes /\ alerted' = "readError"
    /\ isLoading' = FALSE
    /\ UNCHANGED modifiedPdfBytes
    /\ UNCHANGED outsideUpload

\* PDFEditor.tsx: handleFileChange tests file.type and nothing else
EditorPick ==
    /\ uploadPath = "editor"
    /\ pdfBytes = 0
    /\ \E id \in FileIds, readable \in BOOLEAN :
          LET file == FileOf(id)
          IN  /\ picked' = id
              /\ IF file.type # PdfType THEN
                     error' = "notPdf" /\ pdfBytes' = pdfBytes /\ isLoading' = isLoading
                 ELSE IF ~readable THEN
                     error' = "readError" /\ pdfBytes' = pdfBytes /\ isLoading' = isLoading
                 ELSE
                     \* the effect on [pdfBytes] follows
                     error' = "none" /\ pdfBytes' = id /\ isLoading' = TRUE
    /\ modifiedPdfBytes' = IF pdfBytes' # 0 THEN NoDoc ELSE modifiedPdfBytes
    /\ UNCHANGED alerted
    /\ UNCHANGED outsideUpload

NextUpload ==
    \/ HomePick
    \/ UploaderPick
    \/ EditorPick

SpecUpload == InitUpload /\ [][NextUpload]_vars

\* ------------------------------------------------------------------ C19
\* the validation C19 asks of every path
Validated(id, path) ==
    /\ FileOf(id).type = PdfType
    /\ FileOf(id).size <= Ceiling(path)
    /\ FileOf(id).header \/ FileOf(id).parses

\* C19: the stored pdfBytes are those of a file that passed validation
\* (MIME type, size ceiling, "%PDF-" header or successful parse), and after
\* a rejected pick an error message is set and pdfBytes is still empty.
C19_OnlyValidatedBytesStored ==
    /\ pdfBytes # 0 => Validated(pdfBytes, uploadPath)
    /\ (picked # 0 /\ ~Validated(picked, uploadPath)) => (error # "none" /\ pdfBytes = 0)

\* ------------------------------------------------------------------ C21
\* C21: a failing applyEdits surfaces the message of the step that failed:
\* the empty-document message exactly when the document has no pages, the
\* page-numbering message when the page numbering step raised (no header
\* event has happened), the header message only after the page numbering
\* step has run to its end; never the raw underlying error.
C21_ErrorNamesFailedStep ==
    (pc = "done" /\ result.status = "error") =>
        /\ result.error \in {"empty", "pageNumbering", "header"}
        /\ result.error = "empty" <=> Len(pages) = 0
        /\ result.error = "pageNumbering" => NoEventOf("hdr")
        /\ result.error = "header" =>
               (NumberingGate(variant, data) =>
                    StepDraws("num") = NumberDraws(variant, pages, data.pageNumbering))

\* ---------------------------------------------------------------------
\* The page fields of the components: numPages, the pageNumber of the
\* paged preview (PDFEditor.tsx, PDFPreview.tsx) and the startPage field
\* of the form (PDFEditor.tsx, and the two editors of part_001 with their
\* effect that lowers startPage to numPages).  numPages = 0 stands for the
\* null of PDFEditor.tsx and PDFPreview.tsx as well: react-pdf reports a
\* page count of at least 1 and every test of numPages is a truthiness test.

FormUIs == {"editor", "urlA", "urlB", "preview"}

HasStartPageField(u) == u \in {"editor", "urlA", "urlB"}

HasPagedPreview(u) == u \in {"editor", "preview"}

\* e.target.value of the number input: "", "0", "1", "2", "3", "4", "12",
\* "-1", "-0", "1.5"
TypedValues ==
    {<<>>, <<48>>, <<49>>, <<50>>, <<51>>, <<52>>, <<49, 50>>,
     <<45, 49>>, <<45, 48>>, <<49, 46, 53>>}

IsDigit(c) == c >= 48 /\ c <= 57

\* the value of the longest prefix of digits
RECURSIVE DigitsValue(_, _)
DigitsValue(text, acc) ==
    IF text = <<>> \/ ~IsDigit(Head(text)) THEN acc
    ELSE DigitsValue(Tail(text), 10 * acc + (Head(text) - 48))

\* parseInt(text): an optional sign, then digits; NaN when no digit follows
ParseInt(text) ==
    LET negative == text # <<>> /\ Head(text) = 45
        rest     == IF negative THEN Tail(text) ELSE text
    IN  IF rest = <<>> \/ ~IsDigit(Head(rest))
        THEN [nan |-> TRUE, value |-> 0]
        ELSE [nan |-> FALSE,
              value |-> IF negative THEN 0 - DigitsValue(rest, 0) ELSE DigitsValue(rest, 0)]

\* parseInt(e.target.value) || 1
OrOne(parsed) == IF parsed.nan \/ parsed.value = 0 THEN 1 ELSE parsed.value

\* the effect on [numPages, startPage]: if (startPage > numPages)
\* setValue('pageNumbering.startPage', numPages); PDFEditor.tsx has none
AdjustStartPage(u, field, count) ==
    IF u \in {"urlA", "urlB"} /\ field > count THEN count ELSE field

InitForm ==
    /\ variant = "editor" /\ data = "none" /\ pc = "idle" /\ calls = <<>>
    /\ result = NoResult
    /\ pages \in Documents
    /\ FontIdle
    /\ UploadIdle
    /\ WizardIdle
    /\ ui \in FormUIs
    /\ mounted = TRUE
    /\ pdfBytes = 1 /\ watchedValues = 1
    /\ hasChanges = FALSE /\ isLoading = FALSE /\ error = "none" /\ alerted = "none"
    /\ modifiedPdfBytes = NoDoc /\ previewUrl = 0 /\ urls = <<>>
    /\ passes = <<>> /\ loads = <<>> /\ delivered = NoDoc
    /\ debounceTimer = NoTimer
    /\ numPages = 0
    /\ pageNumber = 1
    \* defaultValues.pageNumbering.startPage, after the effects of the first render
    /\ startPage = AdjustStartPage(ui, 1, 0)

\* what the page fields' handlers leave alone
outsideForm == <<applyVars, fontVars, uiVars, uploadVars, wizardVars>>

\* onChange of the startPage input
StartPageChange ==
    /\ HasStartPageField(ui)
    /\ \E typed \in TypedValues :
          startPage' = AdjustStartPage(ui, OrOne(ParseInt(typed)), numPages)
    /\ UNCHANGED <<numPages, pageNumber>>
    /\ UNCHANGED outsideForm

\* loadPdf of part_001: setNumPages(pdfDoc.getPageCount())
LoadPdf ==
    /\ ui \in {"urlA", "urlB"}
    /\ numPages # Len(pages)
    /\ numPages' = Len(pages)
    /\ startPage' = AdjustStartPage(ui, startPage, Len(pages))
    /\ UNCHANGED pageNumber
    /\ UNCHANGED outsideForm

\* onDocumentLoadSuccess of react-pdf
OnDocumentLoadSuccess ==
    /\ HasPagedPreview(ui)
    /\ Len(pages) >= 1
    /\ numPages # Len(pages)
    /\ numPages' = Len(pages)
    /\ UNCHANGED <<pageNumber, startPage>>
    /\ UNCHANGED outsideForm

HandlePrevPage ==
    /\ HasPagedPreview(ui)
    /\ pageNumber' = Max(pageNumber - 1, 1)
    /\ UNCHANGED <<numPages, startPage>>
    /\ UNCHANGED outsideForm

\* setPageNumber(prev => prev + 1) without the bound
NextPageUnbounded(prev, count) == prev + 1

NextPage(prev, count) == IF count # 0 THEN Min(prev + 1, count) ELSE prev

HandleNextPage ==
    /\ HasPagedPreview(ui)
    \* the page counter of the model stops one past the largest document
    /\ pageNumber <= MaxPages
    /\ pageNumber' = NextPage(pageNumber, numPages)
    /\ UNCHANGED <<numPages, startPage>>
    /\ UNCHANGED outsideForm

\* handleApplyChanges after a successful applyEdits: setPageNumber(1)
ApplyResetsPage ==
    /\ ui = "editor"
    /\ pageNumber' = 1
    /\ UNCHANGED <<numPages, startPage>>
    /\ UNCHANGED outsideForm

NextForm ==
    \/ StartPageChange
    \/ LoadPdf
    \/ OnDocumentLoadSuccess
    \/ HandlePrevPage
    \/ HandleNextPage
    \/ ApplyResetsPage

SpecForm == InitForm /\ [][NextForm]_vars

\* ------------------------------------------------------------------ C22
\* C22: in every reachable state of the editor form startPage is an
\* integer of at least 1.
C22_StartPageAtLeastOne == HasStartPageField(ui) => (startPage \in Int /\ startPage >= 1)

PairOf(e) ==
    CASE e.step = "num" -> <<data.pageNumbering.font, data.pageNumbering.bold>>
      [] e.step = "hdr" -> <<data.header.font, data.header.bold>>
      [] OTHER -> <<"Times-New-Roman", FALSE>>

\* C23: within one applyEdits call no (fontFamily, bold) pair is resolved
\* twice: two font loads of the log resolve different pairs.
C23_FontResolvedOncePerPair ==
    \A i, j \in Idx :
        (i < j /\ calls[i].kind = "font" /\ calls[j].kind = "font")
            => PairOf(calls[i]) # PairOf(calls[j])

\* ------------------------------------------------------------------ C24
\* C24: the asset loadCustomFont fetches depends on the bold flag exactly
\* for Roboto: Roboto fetches the Bold asset when bold and the Regular one
\* otherwise, Times-New-Roman fetches its one asset either way.
C24_BoldAssetOnlyForRoboto ==
    fetched # "none" =>
        /\ fontName = "Roboto" =>
               fontPath = (IF bold THEN "Roboto-Bold.ttf" ELSE "Roboto-Regular.ttf")
        /\ fontName = "Times-New-Roman" => fontPath = "times-new-roman.ttf"
        /\ FontPathOf("Roboto", TRUE) # FontPathOf("Roboto", FALSE)
        /\ FontPathOf("Times-New-Roman", TRUE) = FontPathOf("Times-New-Roman", FALSE)

C24_Witness ==
    /\ fontPc = "done" /\ fetched = "ok"
    /\ fontName = "Roboto" /\ bold
    /\ returned = "Roboto-Bold.ttf"

\* ------------------------------------------------------------------ C27
\* C27: what handleDownload hands over is the stored result of a
\* successful pass on the currently loaded file, never the unedited
\* original and never a result computed from a previous file.
C27_DeliversResultOfCurrentFile ==
    [][delivered' # delivered =>
          /\ delivered' = modifiedPdfBytes
          /\ delivered'.request \in 1..Len(passes)
          /\ passes[delivered'.request].state = "ok"
          /\ delivered'.applied # <<>>
          /\ delivered'.file = pdfBytes]_vars

\* ------------------------------------------------------------------ C28
\* pass k goes from running to succeeded in this step
SucceedsNow(k) == passes[k].state = "running" /\ passes'[k].state = "ok"

\* C28: after a pass of applyEdits has succeeded no error message is
\* displayed, even if an earlier pass had failed and set one.
C28_NoErrorAfterSuccess ==
    [][\A k \in 1..Len(passes) : (mounted /\ SucceedsNow(k)) => error' = "none"]_vars

\* ------------------------------------------------------------------ C29
\* C29: the URL held in previewUrl is empty or a created object URL that
\* has not been revoked.
C29_DisplayedUrlIsLive ==
    (mounted /\ PreviewsByUrl(ui) /\ previewUrl # 0) =>
        (previewUrl \in 1..Len(urls) /\ urls[previewUrl] = "live")

\* ------------------------------------------------------------------ C30
\* every pass started so far has settled
AllSettled == passes # <<>> /\ Running(passes) = {}

\* the promises applyEdits awaits settle, so a pass that is in flight
\* reaches the code after its await
SpecUILive == SpecUI /\ WF_vars(PassComplete)

\* C30: every pass of applyEdits that was started eventually settles,
\* and once all of them have settled, whether they succeeded or failed,
\* the loading flag is cleared: no pass leaves the flag set behind it.
C30_PassesFinishAndClearFlag ==
    /\ []((mounted /\ AllSettled) => ~isLoading)
    /\ (Running(passes) # {}) ~> (Running(passes) = {})

C30_Witness ==
    /\ mounted
    /\ AllSettled
    /\ \E k \in 1..Len(passes) : passes[k].state = "failed"
    /\ ~isLoading

\* ---------------------------------------------------------------------
\* The wizard page of part_004: PDFUploader while currentStep is 'upload',
\* the URL editor while it is 'edit' and pdfBytes is set, PDFPreview while
\* it is 'preview' and editedPdfBytes is set.  handleFiles of the uploader
\* and handleFileUpload of the page are async: a file dropped while an
\* earlier one is still being validated (the drop zone is not disabled)
\* settles on its own, also after the uploader has been replaced.
\* Here pdfBytes, error and isLoading are the page's bytes and the
\* uploader's state, picked is fileName, watchedValues and modifiedPdfBytes
\* are the form and the stored result of the editor shown, delivered is
\* what the page's handleDownload hands to the browser.

\* uploads one visit of the page starts
MaxUploads == 2

Steps == {"upload", "edit", "preview"}

Upload(id) == [file |-> id, pc |-> "validating"]

\* the editor is rendered
EditorShown == currentStep = "edit" /\ pdfBytes # 0

\* the form of a freshly mounted editor: initialSettings, or the defaults
InitialValues(settings) == IF settings = 0 THEN 1 ELSE settings

\* the steps handleFileUpload takes once its awaits have settled: only
\* the accepted file moves the wizard on
StepAfterUploadEitherWay(accepted, step) == "edit"

StepAfterUpload(accepted, step) == IF accepted THEN "edit" ELSE step

InitWizard ==
    /\ ApplyIdle
    /\ FontIdle
    /\ UiIdle
    /\ UploadIdle
    /\ FormIdle
    /\ WizardIdle

\* what the wizard leaves alone
outsideWizard ==
    <<applyVars, fontVars, formVars, uploadPath, ui, mounted, hasChanges, previewUrl,
      urls, passes, loads, debounceTimer>>

\* PDFUploader.tsx: handleFiles up to its first await
Drop ==
    /\ currentStep = "upload"
    /\ Len(uploads) < MaxUploads
    /\ \E id \in FileIds :
          LET file == FileOf(id)
          IN  IF file.type # PdfType THEN
                  error' = "notPdf" /\ isLoading' = FALSE /\ uploads' = uploads
              ELSE IF file.size > Ceiling("uploader") THEN
                  error' = "tooLarge" /\ isLoading' = FALSE /\ uploads' = uploads
              ELSE
                  error' = "none" /\ isLoading' = TRUE /\ uploads' = Append(uploads, Upload(id))
    /\ UNCHANGED <<currentStep, editedPdfBytes, editorSettings, pdfBytes, picked, alerted,
                   watchedValues, modifiedPdfBytes, delivered>>
    /\ UNCHANGED outsideWizard

\* PDFUploader.tsx: handleFiles after file.arrayBuffer() and
\* PDFDocument.load; on success it calls onUpload, and handleFileUpload
\* of the page runs up to its first await
FilesValidated ==
    \E k \in 1..Len(uploads), readable \in BOOLEAN :
        LET id == uploads[k].file
            accepted == readable /\ FileOf(id).parses
            shown == currentStep = "upload"
        IN  /\ uploads[k].pc = "validating"
            /\ uploads' = [uploads EXCEPT ![k].pc = IF accepted THEN "reading" ELSE "rejected"]
            /\ picked' = IF accepted THEN id ELSE picked
            /\ error' = IF shown /\ ~accepted THEN "invalidPdf" ELSE error
            /\ isLoading' = IF shown THEN FALSE ELSE isLoading
    /\ UNCHANGED <<currentStep, editedPdfBytes, editorSettings, pdfBytes, alerted,
                   watchedValues, modifiedPdfBytes, delivered>>
    /\ UNCHANGED outsideWizard

\* part_004: handleFileUpload after file.arrayBuffer() and
\* PDFDocument.load.  Leaving 'upload' unmounts the uploader; reaching
\* 'edit' from another step mounts an editor, while an editor already
\* shown stays mounted and only gets other bytes
UploadSettles ==
    \E k \in 1..Len(uploads), readable \in BOOLEAN :
        LET id == uploads[k].file
            accepted == readable /\ FileOf(id).parses
        IN  /\ uploads[k].pc = "reading"
            /\ uploads' = [uploads EXCEPT ![k].pc = IF accepted THEN "done" ELSE "rejected"]
            /\ pdfBytes' = IF accepted THEN id ELSE pdfBytes
            /\ currentStep' = StepAfterUpload(accepted, currentStep)
            /\ alerted' = IF accepted THEN alerted
                          ELSE IF readable THEN "invalidPdf" ELSE "readError"
            /\ IF currentStep = "upload" /\ currentStep' # "upload"
                  THEN error' = "none" /\ isLoading' = FALSE
                  ELSE UNCHANGED <<error, isLoading>>
            /\ watchedValues' = IF currentStep # "edit" /\ currentStep' = "edit"
                                   THEN InitialValues(editorSettings)
                                   ELSE watchedValues
    /\ UNCHANGED <<editedPdfBytes, editorSettings, picked, modifiedPdfBytes, delivered>>
    /\ UNCHANGED outsideWizard

\* the user sets the form of the editor shown and applies: the pass of
\* applyEdits succeeds and its result is stored
EditorApply ==
    /\ EditorShown
    /\ \E v \in FormValues :
          /\ watchedValues' = v
          /\ modifiedPdfBytes' = [file |-> pdfBytes, applied |-> <<v>>, request |-> 1]
    /\ UNCHANGED <<currentStep, editedPdfBytes, editorSettings, uploads, pdfBytes, picked,
                   error, isLoading, alerted, delivered>>
    /\ UNCHANGED outsideWizard

\* part_004: handleEditComplete, called by handleDownload of the editor
\* with its form values and its stored result; the editor is unmounted
HandleEditComplete ==
    /\ EditorShown
    /\ modifiedPdfBytes # NoDoc
    /\ editorSettings' = watchedValues
    /\ editedPdfBytes' = modifiedPdfBytes
    /\ currentStep' = "preview"
    /\ modifiedPdfBytes' = NoDoc
    /\ watchedValues' = 0
    /\ UNCHANGED <<uploads, pdfBytes, picked, error, isLoading, alerted, delivered>>
    /\ UNCHANGED outsideWizard

\* part_004: handleBackToEdit, the onBack of the preview shown
HandleBackToEdit ==
    /\ currentStep = "preview"
    /\ editedPdfBytes # NoDoc
    /\ currentStep' = "edit"
    /\ watchedValues' = InitialValues(editorSettings)
    /\ UNCHANGED <<editedPdfBytes, editorSettings, uploads, pdfBytes, picked, error,
                   isLoading, alerted, modifiedPdfBytes, delivered>>
    /\ UNCHANGED outsideWizard

\* part_004: handleDownload, the onDownload of the preview shown
WizardDownload ==
    /\ currentStep = "preview"
    /\ editedPdfBytes # NoDoc
    /\ delivered' = editedPdfBytes
    /\ UNCHANGED <<currentStep, editedPdfBytes, editorSettings, uploads, pdfBytes, picked,
                   error, isLoading, alerted, watchedValues, modifiedPdfBytes>>
    /\ UNCHANGED outsideWizard

NextWizard ==
    \/ Drop
    \/ FilesValidated
    \/ UploadSettles
    \/ EditorApply
    \/ HandleEditComplete
    \/ HandleBackToEdit
    \/ WizardDownload

SpecWizard == InitWizard /\ [][NextWizard]_vars

\* ------------------------------------------------------------------ C26
\* the wizard shows a step with the bytes that step needs
StepHasItsBytes ==
    /\ currentStep \in Steps
    /\ currentStep = "edit" => pdfBytes # 0
    /\ currentStep = "preview" => editedPdfBytes # NoDoc

\* an upload is accepted in this step and its bytes are stored
AcceptedNow ==
    \E k \in 1..Len(uploads) :
        /\ uploads[k].pc = "reading" /\ uploads'[k].pc = "done"
        /\ FileOf(uploads[k].file).parses
        /\ pdfBytes' = uploads[k].file

\* C26: while the wizard is on 'edit' pdfBytes is set and while it is on
\* 'preview' editedPdfBytes is set; the wizard leaves 'upload' only for
\* 'edit' and only with an upload that passed validation, so a failed
\* upload leaves it on 'upload'; having left 'upload' it never returns.
C26_WizardStepsHaveTheirBytes ==
    /\ []StepHasItsBytes
    /\ [][/\ (currentStep = "upload" /\ currentStep' # "upload") =>
                 (currentStep' = "edit" /\ AcceptedNow)
          /\ currentStep # "upload" => currentStep' # "upload"]_vars

C26_Witness ==
    /\ currentStep = "preview"
    /\ editedPdfBytes # NoDoc
    /\ editedPdfBytes.file = pdfBytes
    /\ \E k \in 1..Len(uploads) : uploads[k].pc = "rejected"

====
